---- MODULE Spec2Model ----
(***************************************************************************)
(* A model of get_tr_docs.py: the top-level sequencer that reconciles the  *)
(* local download folder, runs the pytr download and export subprocesses,  *)
(* mirrors the local directory tree into Nextcloud and uploads the files.  *)
(*                                                                         *)
(* Python strings that are paths are sequences of tokens: a token is a     *)
(* file or directory name or one separator character, "/" or "\\".  The    *)
(* path functions of os.path, pathlib and str are operators on these       *)
(* sequences, written as the library computes them.                        *)
(***************************************************************************)
EXTENDS Integers, Sequences, FiniteSets, TLC

VARIABLES
    platform,               \* sys.platform of the interpreter
    tr_doc_download_path,   \* TR_DOC_DOWNLOAD_PATH
    args,                   \* the parsed command-line flags
    run,                    \* number of the current invocation of the script
    ip,                     \* index of the sequencer statement being executed
    pc,                     \* position inside the current stage
    fs,                     \* what lies at tr_doc_download_path
    ncDirs,                 \* directories of the Nextcloud account
    ncFiles,                \* files of the Nextcloud account
    search_result,          \* create_nextcloud_folders: result of nc.files.find
    findReturned,           \* create_nextcloud_folders: the find call returned
    directories,            \* create_nextcloud_folders: directories still to create
    walk,                   \* upload_docs_to_nextcloud: files still to upload
    dl_returncode,          \* <<dl_docs.returncode>> once download_docs returned
    csv_returncode,         \* <<pp_csv_gen.returncode>> once create_pp_csv returned
    log,                    \* history: stage start/end events of this run
    rmtreeCalls,            \* history: shutil.rmtree calls of this run
    mkdirCalls,             \* history: nc.files.makedirs calls of this run
    uploadCalls,            \* history: nc.files.upload_stream calls of this run
    printedOk,              \* history: "Upload to nextcloud successful!" was printed
    lastUpload,             \* history: local and remote files when the uploader last completed,
                            \*          kept while no uploader run sees another local tree
    rerun                   \* history: remote files around a repeated uploader run

vars == <<platform, tr_doc_download_path, args, run, ip, pc, fs, ncDirs, ncFiles,
          search_result, findReturned, directories, walk, dl_returncode,
          csv_returncode, log, rmtreeCalls, mkdirCalls, uploadCalls,
          printedOk, lastUpload, rerun>>

----------------------------------------------------------------------------
(* Bounds of the model *)

MaxEntries == 3
MaxRuns == 2

----------------------------------------------------------------------------
(* Strings and paths *)

Platforms == {"linux", "win32"}

OsSep(p) == IF p = "win32" THEN "\\" ELSE "/"

IsSep(p, t) == IF p = "win32" THEN t \in {"/", "\\"} ELSE t = "/"

RECURSIVE StrJoin(_, _)
StrJoin(sep, items) ==
    IF items = <<>> THEN <<>>
    ELSE IF Len(items) = 1 THEN <<items[1]>>
    ELSE <<items[1], sep>> \o StrJoin(sep, Tail(items))

StrReplace(s, old, new) ==
    [i \in 1..Len(s) |-> IF s[i] = old THEN new ELSE s[i]]

OsPathJoin(p, a, b) ==
    IF b # <<>> /\ IsSep(p, b[1]) THEN b
    ELSE IF a = <<>> \/ IsSep(p, a[Len(a)]) THEN a \o b
    ELSE a \o <<OsSep(p)>> \o b

SplitNames(p, s) == SelectSeq(s, LAMBDA t : ~IsSep(p, t))

PathParts(p, s) ==
    IF s # <<>> /\ IsSep(p, s[1]) THEN <<OsSep(p)>> \o SplitNames(p, s)
    ELSE SplitNames(p, s)

OsPathBasename(p, s) ==
    LET seps == {i \in 1..Len(s) : IsSep(p, s[i])}
        last == IF seps = {} THEN 0 ELSE CHOOSE i \in seps : \A j \in seps : j <= i
    IN SubSeq(s, last + 1, Len(s))

RECURSIVE CommonPrefixLen(_, _)
CommonPrefixLen(a, b) ==
    IF a = <<>> \/ b = <<>> \/ a[1] # b[1] THEN 0
    ELSE 1 + CommonPrefixLen(Tail(a), Tail(b))

OsPathRelpath(p, path, start) ==
    LET start_list == SplitNames(p, start)
        path_list == SplitNames(p, path)
        i == CommonPrefixLen(start_list, path_list)
        rel_list == [k \in 1..(Len(start_list) - i) |-> ".."]
                    \o SubSeq(path_list, i + 1, Len(path_list))
    IN IF rel_list = <<>> THEN <<".">> ELSE StrJoin(OsSep(p), rel_list)

----------------------------------------------------------------------------
(* Configuration *)

nc_tr_document_folder == <<"TR", "/", "Docs">>

TargetPaths(p) ==
    { <<"downloads">>,
      <<"data", OsSep(p), "downloads">>,
      <<OsSep(p), "srv", OsSep(p), "downloads">> }

Flags == [nodl : BOOLEAN, skipdel : BOOLEAN, nocsv : BOOLEAN,
          noupload : BOOLEAN, ffc : BOOLEAN]

timestr == "20261102"

pp_csv_name == timestr \o "_pp_import.csv"

----------------------------------------------------------------------------
(* The local file system below tr_doc_download_path.  A directory or file   *)
(* is named by its path relative to tr_doc_download_path, a sequence of     *)
(* names.                                                                   *)

Front(s) == SubSeq(s, 1, Len(s) - 1)

\* the directories and files that may occur below the download path
EntryUniverse ==
    << [type |-> "dir",  path |-> <<"2024">>],
       [type |-> "file", path |-> <<"2024", "doc1.pdf">>],
       [type |-> "dir",  path |-> <<"2024", "q1">>],
       [type |-> "file", path |-> <<"2024", "q1", "doc2.pdf">>],
       [type |-> "file", path |-> <<"all_events.json">>],
       [type |-> "dir",  path |-> <<"2025">>],
       [type |-> "file", path |-> <<"2025", "doc3.pdf">>] >>

Entries == {EntryUniverse[i] : i \in (1..MaxEntries) \cap DOMAIN EntryUniverse}

DirSet == {e.path : e \in {x \in Entries : x.type = "dir"}}

FileSet == {e.path : e \in {x \in Entries : x.type = "file"}}

AbsentFs == [kind |-> "absent", dirs |-> {}, files |-> {}]

RegularFileFs == [kind |-> "file", dirs |-> {}, files |-> {}]

IsTree(D, F) ==
    /\ \A d \in D : Len(d) > 1 => Front(d) \in D
    /\ \A f \in F : Len(f) > 1 => Front(f) \in D

Trees ==
    {[kind |-> "dir", dirs |-> D, files |-> F] :
        <<D, F>> \in {t \in (SUBSET DirSet) \X (SUBSET FileSet) : IsTree(t[1], t[2])}}

FileData(f) == <<f[Len(f)]>>

----------------------------------------------------------------------------
(* The Nextcloud account.  A remote path is a string with "/" separators;   *)
(* the account root, the empty string, always exists.                       *)

RemoteParent(path) ==
    LET seps == {i \in 1..Len(path) : path[i] = "/"}
        last == IF seps = {} THEN 1 ELSE CHOOSE i \in seps : \A j \in seps : j <= i
    IN SubSeq(path, 1, last - 1)

RemoteName(path) ==
    LET seps == {i \in 1..Len(path) : path[i] = "/"}
        last == IF seps = {} THEN 0 ELSE CHOOSE i \in seps : \A j \in seps : j <= i
    IN SubSeq(path, last + 1, Len(path))

RemotePrefixes(path) ==
    {SubSeq(path, 1, i - 1) :
        i \in {j \in 2..(Len(path) + 1) : j = Len(path) + 1 \/ path[j] = "/"}}

RemoteDirExists(dirs, path) == path = <<>> \/ path \in dirs

StaleDoc == [path |-> <<"TR", "/", "Docs", "/", "2024", "/", "doc1.pdf">>,
             data |-> <<"stale">>]

RemoteInits ==
    { [dirs |-> {}, files |-> {}],
      [dirs |-> {<<"TR">>, <<"TR", "/", "Docs">>}, files |-> {}],
      [dirs |-> RemotePrefixes(RemoteParent(StaleDoc.path)), files |-> {StaleDoc}],
      [dirs |-> {<<"Other">>, <<"Other", "/", "Docs">>}, files |-> {}] }

\* nc.files.find(["eq", "name", name]): every node of the account with that name
NcFind(dirs, files, name) ==
    {n \in dirs \cup {e.path : e \in files} : RemoteName(n) = name}

\* nc.files.makedirs(path, exist_ok=True): creates the path and its missing parents
NcMakedirs(dirs, path) == dirs \cup RemotePrefixes(path)

\* nc.files.upload_stream(path, fp): the file at path is replaced by the stream
NcUploadStream(files, path, data) ==
    {e \in files : e.path # path} \cup {[path |-> path, data |-> data]}

\* the exit status of a subprocess: zero or not
ExitCodes == {0, 1}

\* a remote call either returns or raises; an upload into a missing folder raises
NcCallOutcomes == {"ok", "error"}

NcUploadOutcomes(dirs, path) ==
    IF RemoteDirExists(dirs, RemoteParent(path)) THEN NcCallOutcomes ELSE {"error"}

----------------------------------------------------------------------------
(* The functions of the script *)

\* remove_existing_dl_folder
\* mutant: an empty folder is removed too
IsAnyDir(f) == f.kind = "dir"

IsNonEmptyDir(f) == f.kind = "dir" /\ Cardinality(f.dirs \cup f.files) > 0

ShutilRmtree(f) == AbsentFs

RemoveExistingDlFolder(f) == IF IsNonEmptyDir(f) THEN ShutilRmtree(f) ELSE f

\* download_docs: what pytr dl_docs may leave at the download path
DownloadResults(f, rc) ==
    IF f.kind = "file" THEN (IF rc = 0 THEN {} ELSE {f})
    ELSE {[kind |-> "dir", dirs |-> f.dirs \cup t.dirs, files |-> f.files \cup t.files] :
            t \in Trees}
         \cup (IF rc = 0 THEN {} ELSE {f})

\* mutant: a failed download ends the script
AfterDownloadChecked(rc) == IF rc = 0 THEN "gate" ELSE "aborted"

AfterDownload(rc) == "gate"

\* create_pp_csv: what pytr export_transactions may leave at the download path
ExportResults(f, rc) ==
    IF rc # 0 THEN {f}
    ELSE IF f.kind = "dir" THEN {[f EXCEPT !.files = @ \cup {<<pp_csv_name>>}]}
    ELSE {}

AfterExport(rc) == "gate"

\* create_nextcloud_folders
NodeEqualsStr(node, s) == FALSE

InSearchResult(s, result) == \E node \in result : NodeEqualsStr(node, s)

\* mutant: the force flag is ignored
CreatesFoldersUnforced(result, a) == result = {}

CreatesFolders(result, a) ==
    (result = {} \/ a.ffc) /\ ~InSearchResult(nc_tr_document_folder, result)

\* Path(top).rglob("*") filtered by is_dir(), in directory-listing order
RGlobOrder == << <<"2024">>, <<"2024", "q1">>, <<"2025">> >>

RGlobDirs(f) ==
    IF f.kind = "dir" THEN SelectSeq(RGlobOrder, LAMBDA d : d \in f.dirs) ELSE <<>>

NcSubdirPath(p, top, d) ==
    LET directory_parts == PathParts(p, top) \o d
        subdirs == Tail(directory_parts)
    IN StrReplace(OsPathJoin(p, nc_tr_document_folder, StrJoin("/", subdirs)), "\\", "/")

AfterMakedirsError == "aborted"

\* upload_docs_to_nextcloud
\* the files os.walk(top) yields, top-down and in directory-listing order
WalkOrder ==
    << <<"all_events.json">>, <<pp_csv_name>>, <<"2024", "doc1.pdf">>,
       <<"2024", "q1", "doc2.pdf">>, <<"2025", "doc3.pdf">> >>

OsWalkFiles(f) ==
    IF f.kind = "dir" THEN SelectSeq(WalkOrder, LAMBDA x : x \in f.files) ELSE <<>>

RECURSIVE OsWalkRoot(_, _, _)
OsWalkRoot(p, top, d) ==
    IF d = <<>> THEN top
    ELSE OsPathJoin(p, OsWalkRoot(p, top, Front(d)), <<d[Len(d)]>>)

LocalFilePath(p, top, f) == OsPathJoin(p, OsWalkRoot(p, top, Front(f)), <<f[Len(f)]>>)

\* mutant: the separators of the relative path are left as the platform wrote them
RemoteFilePathRaw(p, top, f) ==
    OsPathJoin(p, nc_tr_document_folder,
               OsPathRelpath(p, LocalFilePath(p, top, f), top))

\* mutant: the remote name carries the number of the run
RemoteFilePathPerRun(p, top, f) ==
    StrReplace(OsPathJoin(p, nc_tr_document_folder,
                          OsPathRelpath(p, LocalFilePath(p, top, f), top)),
               "\\", "/") \o <<".", ToString(run)>>

RemoteFilePath(p, top, f) ==
    LET relative_path == OsPathRelpath(p, LocalFilePath(p, top, f), top)
    IN StrReplace(OsPathJoin(p, nc_tr_document_folder, relative_path), "\\", "/")

\* mutant: the error of an upload is caught and the loop goes on
AfterUploadErrorCaught == "upload"

AfterUploadError == "aborted"

\* the statements at the end of the script
\* mutant: the export is tied to the download alone
RunsExportOnlyAfterDownload(a) == ~a.nocsv /\ ~a.nodl

RunsExport(a) == ~a.nocsv /\ (~a.nodl \/ ~a.skipdel)

\* mutant: the files are uploaded before the folders are created
ProgramUploadFirst == <<"reconcile", "download", "export", "upload", "sync">>

Program == <<"reconcile", "download", "export", "sync", "upload">>

StageEnabled(s, a) ==
    CASE s = "reconcile" -> ~a.skipdel
      [] s = "download"  -> ~a.nodl
      [] s = "export"    -> RunsExport(a)
      [] s = "sync"      -> ~a.noupload
      [] s = "upload"    -> ~a.noupload

----------------------------------------------------------------------------
(* The state machine *)

Ev(s, e) == [stage |-> s, ev |-> e]

AtStmt(s) == pc = "gate" /\ ip <= Len(Program) /\ Program[ip] = s

NoUpload == [valid |-> FALSE, tree |-> AbsentFs, files |-> {}]

NoRerun == [valid |-> FALSE, before |-> {}, after |-> {}]

Init ==
    /\ platform \in Platforms
    /\ tr_doc_download_path \in TargetPaths(platform)
    /\ args \in Flags
    /\ run = 1
    /\ ip = 1
    /\ pc = "gate"
    /\ fs \in Trees \cup {AbsentFs, RegularFileFs}
    /\ \E r \in RemoteInits : ncDirs = r.dirs /\ ncFiles = r.files
    /\ search_result = {}
    /\ findReturned = FALSE
    /\ directories = <<>>
    /\ walk = <<>>
    /\ dl_returncode = <<>>
    /\ csv_returncode = <<>>
    /\ log = <<>>
    /\ rmtreeCalls = 0
    /\ mkdirCalls = {}
    /\ uploadCalls = <<>>
    /\ printedOk = FALSE
    /\ lastUpload = NoUpload
    /\ rerun = NoRerun

SkipStage ==
    /\ pc = "gate"
    /\ ip <= Len(Program)
    /\ ~StageEnabled(Program[ip], args)
    /\ ip' = ip + 1
    /\ UNCHANGED <<platform, tr_doc_download_path, args, run, pc, fs, ncDirs, ncFiles,
                   search_result, findReturned, directories, walk, dl_returncode,
                   csv_returncode, log, rmtreeCalls, mkdirCalls, uploadCalls,
                   printedOk, lastUpload, rerun>>

remove_existing_dl_folder ==
    /\ AtStmt("reconcile")
    /\ StageEnabled("reconcile", args)
    /\ fs' = RemoveExistingDlFolder(fs)
    /\ rmtreeCalls' = IF IsNonEmptyDir(fs) THEN rmtreeCalls + 1 ELSE rmtreeCalls
    /\ log' = log \o <<Ev("reconcile", "start"), Ev("reconcile", "end")>>
    /\ ip' = ip + 1
    /\ UNCHANGED <<platform, tr_doc_download_path, args, run, pc, ncDirs, ncFiles,
                   search_result, findReturned, directories, walk, dl_returncode,
                   csv_returncode, mkdirCalls, uploadCalls, printedOk, lastUpload, rerun>>

download_docs_popen ==
    /\ AtStmt("download")
    /\ StageEnabled("download", args)
    /\ pc' = "download"
    /\ log' = Append(log, Ev("download", "start"))
    /\ UNCHANGED <<platform, tr_doc_download_path, args, run, ip, fs, ncDirs, ncFiles,
                   search_result, findReturned, directories, walk, dl_returncode,
                   csv_returncode, rmtreeCalls, mkdirCalls, uploadCalls,
                   printedOk, lastUpload, rerun>>

download_docs_communicate ==
    /\ pc = "download"
    /\ \E rc \in ExitCodes : \E t \in DownloadResults(fs, rc) :
        /\ fs' = t
        /\ dl_returncode' = <<rc>>
        /\ pc' = AfterDownload(rc)
    /\ log' = Append(log, Ev("download", "end"))
    /\ ip' = ip + 1
    /\ UNCHANGED <<platform, tr_doc_download_path, args, run, ncDirs, ncFiles,
                   search_result, findReturned, directories, walk, csv_returncode,
                   rmtreeCalls, mkdirCalls, uploadCalls, printedOk, lastUpload,
                   rerun>>

create_pp_csv_popen ==
    /\ AtStmt("export")
    /\ StageEnabled("export", args)
    /\ pc' = "export"
    /\ log' = Append(log, Ev("export", "start"))
    /\ UNCHANGED <<platform, tr_doc_download_path, args, run, ip, fs, ncDirs, ncFiles,
                   search_result, findReturned, directories, walk, dl_returncode,
                   csv_returncode, rmtreeCalls, mkdirCalls, uploadCalls,
                   printedOk, lastUpload, rerun>>

create_pp_csv_communicate ==
    /\ pc = "export"
    /\ \E rc \in ExitCodes : \E t \in ExportResults(fs, rc) :
        /\ fs' = t
        /\ csv_returncode' = <<rc>>
        /\ pc' = AfterExport(rc)
    /\ log' = Append(log, Ev("export", "end"))
    /\ ip' = ip + 1
    /\ UNCHANGED <<platform, tr_doc_download_path, args, run, ncDirs, ncFiles,
                   search_result, findReturned, directories, walk, dl_returncode,
                   rmtreeCalls, mkdirCalls, uploadCalls, printedOk, lastUpload,
                   rerun>>

create_nextcloud_folders_find_error ==
    /\ AtStmt("sync")
    /\ StageEnabled("sync", args)
    /\ "error" \in NcCallOutcomes
    /\ pc' = "aborted"
    /\ log' = Append(log, Ev("sync", "start"))
    /\ UNCHANGED <<platform, tr_doc_download_path, args, run, ip, fs, ncDirs, ncFiles,
                   search_result, findReturned, directories, walk, dl_returncode,
                   csv_returncode, rmtreeCalls, mkdirCalls, uploadCalls,
                   printedOk, lastUpload, rerun>>

create_nextcloud_folders_find ==
    /\ AtStmt("sync")
    /\ StageEnabled("sync", args)
    /\ "ok" \in NcCallOutcomes
    /\ search_result' = NcFind(ncDirs, ncFiles,
                               OsPathBasename(platform, nc_tr_document_folder))
    /\ findReturned' = TRUE
    /\ IF CreatesFolders(search_result', args)
       THEN /\ directories' = RGlobDirs(fs)
            /\ pc' = "makedirs"
            /\ log' = Append(log, Ev("sync", "start"))
            /\ ip' = ip
       ELSE /\ directories' = <<>>
            /\ pc' = "gate"
            /\ log' = log \o <<Ev("sync", "start"), Ev("sync", "end")>>
            /\ ip' = ip + 1
    /\ UNCHANGED <<platform, tr_doc_download_path, args, run, fs, ncDirs, ncFiles,
                   walk, dl_returncode, csv_returncode, rmtreeCalls, mkdirCalls,
                   uploadCalls, printedOk, lastUpload, rerun>>

create_nextcloud_folders_makedirs ==
    /\ pc = "makedirs"
    /\ directories # <<>>
    /\ \E outcome \in NcCallOutcomes :
        LET directory == Head(directories)
            nc_subdir_path == NcSubdirPath(platform, tr_doc_download_path, directory)
        IN /\ mkdirCalls' = mkdirCalls \cup {[dir |-> directory, path |-> nc_subdir_path]}
           /\ IF outcome = "ok"
              THEN /\ ncDirs' = NcMakedirs(ncDirs, nc_subdir_path)
                   /\ directories' = Tail(directories)
                   /\ pc' = pc
              ELSE /\ pc' = AfterMakedirsError
                   /\ UNCHANGED <<ncDirs, directories>>
    /\ UNCHANGED <<platform, tr_doc_download_path, args, run, ip, fs, ncFiles,
                   search_result, findReturned, walk, dl_returncode, csv_returncode,
                   log, rmtreeCalls, uploadCalls, printedOk, lastUpload, rerun>>

create_nextcloud_folders_return ==
    /\ pc = "makedirs"
    /\ directories = <<>>
    /\ pc' = "gate"
    /\ ip' = ip + 1
    /\ log' = Append(log, Ev("sync", "end"))
    /\ UNCHANGED <<platform, tr_doc_download_path, args, run, fs, ncDirs, ncFiles,
                   search_result, findReturned, directories, walk, dl_returncode,
                   csv_returncode, rmtreeCalls, mkdirCalls, uploadCalls,
                   printedOk, lastUpload, rerun>>

upload_docs_to_nextcloud_walk ==
    /\ AtStmt("upload")
    /\ StageEnabled("upload", args)
    /\ walk' = OsWalkFiles(fs)
    /\ pc' = "upload"
    /\ log' = Append(log, Ev("upload", "start"))
    /\ lastUpload' = IF lastUpload.valid /\ lastUpload.tree # fs THEN NoUpload ELSE lastUpload
    /\ UNCHANGED <<platform, tr_doc_download_path, args, run, ip, fs, ncDirs, ncFiles,
                   search_result, findReturned, directories, dl_returncode,
                   csv_returncode, rmtreeCalls, mkdirCalls, uploadCalls,
                   printedOk, rerun>>

upload_docs_to_nextcloud_file ==
    /\ pc = "upload"
    /\ walk # <<>>
    /\ LET file == Head(walk)
           remote_file_path == RemoteFilePath(platform, tr_doc_download_path, file)
       IN \E outcome \in NcUploadOutcomes(ncDirs, remote_file_path) :
            /\ uploadCalls' = Append(uploadCalls,
                   [file |-> file, path |-> remote_file_path,
                    parentExists |-> RemoteDirExists(ncDirs, RemoteParent(remote_file_path)),
                    ok |-> outcome = "ok"])
            /\ IF outcome = "ok"
               THEN /\ ncFiles' = NcUploadStream(ncFiles, remote_file_path, FileData(file))
                    /\ walk' = Tail(walk)
                    /\ pc' = pc
               ELSE /\ pc' = AfterUploadError
                    /\ UNCHANGED <<ncFiles, walk>>
    /\ UNCHANGED <<platform, tr_doc_download_path, args, run, ip, fs, ncDirs,
                   search_result, findReturned, directories, dl_returncode,
                   csv_returncode, log, rmtreeCalls, mkdirCalls, printedOk,
                   lastUpload, rerun>>

upload_docs_to_nextcloud_return ==
    /\ pc = "upload"
    /\ walk = <<>>
    /\ printedOk' = TRUE
    /\ pc' = "gate"
    /\ ip' = ip + 1
    /\ log' = Append(log, Ev("upload", "end"))
    /\ lastUpload' = [valid |-> TRUE, tree |-> fs, files |-> ncFiles]
    /\ rerun' = IF lastUpload.valid /\ lastUpload.tree = fs
                THEN [valid |-> TRUE, before |-> lastUpload.files, after |-> ncFiles]
                ELSE rerun
    /\ UNCHANGED <<platform, tr_doc_download_path, args, run, fs, ncDirs, ncFiles,
                   search_result, findReturned, directories, walk, dl_returncode,
                   csv_returncode, rmtreeCalls, mkdirCalls, uploadCalls>>

Exit ==
    /\ pc = "gate"
    /\ ip = Len(Program) + 1
    /\ pc' = "done"
    /\ UNCHANGED <<platform, tr_doc_download_path, args, run, ip, fs, ncDirs, ncFiles,
                   search_result, findReturned, directories, walk, dl_returncode,
                   csv_returncode, log, rmtreeCalls, mkdirCalls, uploadCalls,
                   printedOk, lastUpload, rerun>>

\* the operator runs the same command line again
Invoke ==
    /\ pc \in {"done", "aborted"}
    /\ run < MaxRuns
    /\ run' = run + 1
    /\ args' = args
    /\ ip' = 1
    /\ pc' = "gate"
    /\ search_result' = {}
    /\ findReturned' = FALSE
    /\ directories' = <<>>
    /\ walk' = <<>>
    /\ dl_returncode' = <<>>
    /\ csv_returncode' = <<>>
    /\ log' = <<>>
    /\ rmtreeCalls' = 0
    /\ mkdirCalls' = {}
    /\ uploadCalls' = <<>>
    /\ printedOk' = FALSE
    /\ UNCHANGED <<platform, tr_doc_download_path, fs, ncDirs, ncFiles, lastUpload, rerun>>

Next ==
    \/ SkipStage
    \/ remove_existing_dl_folder
    \/ download_docs_popen
    \/ download_docs_communicate
    \/ create_pp_csv_popen
    \/ create_pp_csv_communicate
    \/ create_nextcloud_folders_find_error
    \/ create_nextcloud_folders_find
    \/ create_nextcloud_folders_makedirs
    \/ create_nextcloud_folders_return
    \/ upload_docs_to_nextcloud_walk
    \/ upload_docs_to_nextcloud_file
    \/ upload_docs_to_nextcloud_return
    \/ Exit
    \/ Invoke

Spec == Init /\ [][Next]_vars

----------------------------------------------------------------------------
(* Vocabulary of the properties *)

Started(s) == \E i \in 1..Len(log) : log[i] = Ev(s, "start")

Ended(s) == \E i \in 1..Len(log) : log[i] = Ev(s, "end")

StageRank(s) ==
    CASE s = "reconcile" -> 1
      [] s = "download"  -> 2
      [] s = "export"    -> 3
      [] s = "sync"      -> 4
      [] s = "upload"    -> 5

LocalDirs == IF fs.kind = "dir" THEN fs.dirs ELSE {}

LocalFiles == IF fs.kind = "dir" THEN fs.files ELSE {}

\* the remote path that mirrors a path relative to the download folder
MirrorPath(rel) == nc_tr_document_folder \o <<"/">> \o StrJoin("/", rel)

UploadedFiles == {uploadCalls[i].file : i \in 1..Len(uploadCalls)}

----------------------------------------------------------------------------
(* C1: in every run the stages that execute do so in the order reconcile,   *)
(* download, export, folder sync, file upload: a stage starts only when     *)
(* every stage started before it has ended and is earlier in that order,    *)
(* so no stage runs twice.                                                  *)

C1_StagesInFixedOrder ==
    \A i \in 1..Len(log) :
        /\ log[i].ev = "start" =>
            /\ i > 1 => log[i - 1].ev = "end"
            /\ \A j \in 1..(i - 1) : StageRank(log[j].stage) < StageRank(log[i].stage)
        /\ log[i].ev = "end" => i > 1 /\ log[i - 1] = Ev(log[i].stage, "start")

C1_Witness ==
    /\ pc = "done"
    /\ Len(log) = 10
    /\ \A s \in {"reconcile", "download", "export", "sync", "upload"} : Ended(s)

----------------------------------------------------------------------------
(* C2: once the sequencer is past the export statement, create_pp_csv has   *)
(* run exactly when --nocsv is off and --nodl and --skipdel are not both    *)
(* on; with skipdel off, nodl on and nocsv off the reconciler has run, the  *)
(* download has not, and the export has.                                    *)

PastExport == ip > 3

C2_ExportRunsExactlyWhen ==
    PastExport =>
        /\ Started("export") <=> (~args.nocsv /\ ~(args.nodl /\ args.skipdel))
        /\ (~args.skipdel /\ args.nodl /\ ~args.nocsv) =>
              Ended("reconcile") /\ ~Started("download") /\ Ended("export")

C2_Witness ==
    /\ pc = "done"
    /\ ~args.skipdel /\ args.nodl /\ ~args.nocsv
    /\ Ended("reconcile") /\ ~Started("download") /\ Ended("export")

----------------------------------------------------------------------------
(* C3: the step of remove_existing_dl_folder removes the download folder    *)
(* exactly when it is a non-empty directory, and then leaves it absent;     *)
(* when the folder is empty or absent the step raises nothing, calls no     *)
(* rmtree and leaves the local file system as it was.                       *)

C3_ReconcilerRemovesNonEmptyDir ==
    [][ (AtStmt("reconcile") /\ ~args.skipdel) =>
            IF fs.kind = "dir" /\ fs.dirs \cup fs.files # {}
            THEN fs' = AbsentFs /\ rmtreeCalls' = rmtreeCalls + 1
            ELSE fs' = fs /\ rmtreeCalls' = rmtreeCalls /\ pc' # "aborted"
      ]_vars

C3_Witness ==
    /\ log = <<Ev("reconcile", "start"), Ev("reconcile", "end")>>
    /\ rmtreeCalls = 1
    /\ fs.kind = "absent"

----------------------------------------------------------------------------
(* C4: when the download folder holds a subdirectory and the find query of  *)
(* create_nextcloud_folders has returned, the function has, by the time it  *)
(* ends or fails, issued a makedirs call if and only if the query matched   *)
(* nothing or --ffc is set.                                                 *)

SyncOver == findReturned /\ (Ended("sync") \/ pc = "aborted")

----------------------------------------------------------------------------
(* C5: whenever create_nextcloud_folders creates folders and returns, it    *)
(* has issued one makedirs call for every directory below the download      *)
(* folder, each for the remote base folder joined with the directory's path *)
(* relative to the download folder, whatever the download path is.          *)

C5_OneCallPerDirectoryAtMirrorPath ==
    (Ended("sync") /\ (search_result = {} \/ args.ffc)) =>
        mkdirCalls = {[dir |-> d, path |-> MirrorPath(d)] : d \in LocalDirs}

----------------------------------------------------------------------------
(* C6: every upload_stream call goes to the remote base folder joined with  *)
(* the file's path relative to the download folder, with "/" separators     *)
(* only; 2024/doc1.pdf goes to TR/Docs/2024/doc1.pdf; and when the uploader *)
(* returns, every file below the download folder has been streamed.         *)

C6_UploadsToMirrorPath ==
    /\ \A i \in 1..Len(uploadCalls) :
        /\ uploadCalls[i].path = MirrorPath(uploadCalls[i].file)
        /\ \A k \in 1..Len(uploadCalls[i].path) : uploadCalls[i].path[k] # "\\"
        /\ uploadCalls[i].file = <<"2024", "doc1.pdf">> =>
              uploadCalls[i].path = <<"TR", "/", "Docs", "/", "2024", "/", "doc1.pdf">>
    /\ Ended("upload") => UploadedFiles = LocalFiles

C6_Witness ==
    /\ Ended("upload")
    /\ platform = "win32"
    /\ \E i \in 1..Len(uploadCalls) :
          uploadCalls[i].file = <<"2024", "doc1.pdf">> /\ uploadCalls[i].ok

----------------------------------------------------------------------------
(* C7: when the uploader completes again, the download folder being what it *)
(* was when the uploader last completed and no uploader run on another tree *)
(* in between, the remote files are those present after that earlier        *)
(* completion, and no remote path has two entries.                          *)

C7_RerunLeavesRemoteIdentical ==
    rerun.valid =>
        /\ rerun.after = rerun.before
        /\ \A e1, e2 \in rerun.after : e1.path = e2.path => e1 = e2

C7_Witness ==
    /\ rerun.valid
    /\ run = 2
    /\ Len(uploadCalls) >= 2
    /\ \E e \in rerun.after : e.path = StaleDoc.path /\ e.data # StaleDoc.data

----------------------------------------------------------------------------
(* C8: the exit status of the download or export subprocess never ends the  *)
(* run: once download_docs has returned, the run is aborted only inside the *)
(* remote stages, the export has run exactly when its flags enable it, and  *)
(* a run that reaches its end with upload enabled has run both remote       *)
(* stages; likewise once create_pp_csv has returned.                        *)

C8_ExitStatusNeverHalts ==
    (Ended("download") \/ Ended("export")) =>
        /\ pc = "aborted" => Started("sync")
        /\ PastExport => (Started("export") <=> RunsExport(args))
        /\ pc = "done" => (~args.noupload => Ended("sync") /\ Ended("upload"))

C8_Witness ==
    /\ pc = "done"
    /\ dl_returncode = <<1>>
    /\ csv_returncode = <<1>>
    /\ Ended("sync")
    /\ Ended("upload")

----------------------------------------------------------------------------
(* C9: an upload_stream call that fails is the last call of the run: the    *)
(* run is aborted, no further file is uploaded, the file is not tried       *)
(* again, and the success message is not printed.                           *)

C9_UploadFailureAborts ==
    \A i \in 1..Len(uploadCalls) :
        ~uploadCalls[i].ok =>
            /\ i = Len(uploadCalls)
            /\ pc = "aborted"
            /\ ~printedOk
            /\ ~Ended("upload")

C9_Witness ==
    /\ pc = "aborted"
    /\ Len(uploadCalls) = 1
    /\ ~uploadCalls[1].ok
    /\ uploadCalls[1].parentExists
    /\ Len(walk) >= 2

----------------------------------------------------------------------------
(* C10: whenever the uploader streams a file, the remote folder that is to  *)
(* hold it exists.                                                          *)

C10_ParentExistsAtUpload ==
    \A i \in 1..Len(uploadCalls) : uploadCalls[i].parentExists

====
